---- MODULE Spec2Model ----
(***************************************************************************)
(* Model of OrigamiPatterns/Pattern.py: the Pattern effect class.          *)
(*                                                                         *)
(*   - get_color_string : packed colour integer -> "#RRGGBB" string        *)
(*   - calc_unit_factor : three-way fallback for the unit conversion       *)
(*   - create_styles_dict : raw options -> per stroke class style table    *)
(*   - effect / draw / get_layer : grouping and hand-over to the renderer  *)
(*                                                                         *)
(* Representation choices                                                  *)
(*   * Python integers are unbounded.  A colour integer n is the record    *)
(*     [hi, lo] with n = hi * 256 + lo, lo \in 0..255, hi any integer.     *)
(*   * Strings are sequences of one-character strings.                     *)
(*   * Float options are exact rationals: the value of a numerator k is    *)
(*     k / Den.  Products keep the numerator and their denominator         *)
(*     is the matching power of Den (width*F: Den^2, len*duty*F: Den^3).   *)
(***************************************************************************)
EXTENDS Integers, Sequences, FiniteSets, TLC

VARIABLES
    py,           \* major version of the interpreter running the extension
    host,         \* which variants of the host API exist (inkex revision)
    options,      \* self.options
    longColor,    \* argument of a direct get_color_string call
    hexColor,     \* its return value
    unit_calls,   \* call paths the last calc_unit_factor attempted, in order
    styles_dict,  \* self.styles_dict
    path_tree,    \* self.path_tree
    edge_points,  \* self.edge_points
    edges,        \* local `edges` of effect()
    topgroup,     \* self.topgroup: "none", "layer" or "group"
    layer,        \* children of the document's current layer
    rendered,     \* first argument of Path.draw_paths_recursively
    entry,        \* entry point through which effect() is running
    error,        \* exception that left draw(), or "none"
    passes,       \* number of times effect() was entered
    mutating,     \* the passes of effect() that added to the document
    pc            \* position in draw() / effect()

vars == <<py, host, options, longColor, hexColor, unit_calls, styles_dict,
          path_tree, edge_points, edges, topgroup, layer, rendered, entry,
          error, passes, mutating, pc>>

----------------------------------------------------------------------------
(* Bounds of the model *)

Den       == 4    \* resolution of the rational options: value = k / Den
MaxLen    == 2    \* largest dash cycle length, in halves
MaxDuty   == 3    \* largest duty cycle, in halves (values > 1 included)
MaxWidth  == 2    \* largest stroke width, in tenths
MaxFactor == 4    \* largest unit factor, in halves
MaxWrap   == 1    \* colour integers range over k * 2^32 + c, |k| <= MaxWrap
MaxTree   == 2    \* top-level nodes the pattern generator returns
MaxEdge   == 2    \* boundary points the pattern generator returns

----------------------------------------------------------------------------
(* Python string and integer helpers *)

Abs(x) == IF x < 0 THEN -x ELSE x

HexDigitChars == <<"0","1","2","3","4","5","6","7","8","9","a","b","c","d","e","f">>

\* digits of a non-negative integer in base 16, most significant first,
\* no leading zeros, "0" for zero (the digits part of Python's hex())
RECURSIVE HexDigits(_)
HexDigits(n) ==
    IF n < 16 THEN <<HexDigitChars[n + 1]>>
    ELSE Append(HexDigits(n \div 16), HexDigitChars[(n % 16) + 1])

\* magnitude |hi * 256 + lo| as a [hi, lo] pair
Magnitude(c) ==
    IF c.hi >= 0 THEN c
    ELSE IF c.lo = 0 THEN [hi |-> -c.hi, lo |-> 0]
    ELSE [hi |-> -c.hi - 1, lo |-> 256 - c.lo]

IsNegative(c) == c.hi < 0

\* hex digits of a non-negative [hi, lo] pair
PairDigits(c) ==
    IF c.hi = 0 THEN HexDigits(c.lo)
    ELSE HexDigits(c.hi)
           \o <<HexDigitChars[(c.lo \div 16) + 1], HexDigitChars[(c.lo % 16) + 1]>>

\* Python 3 hex(int): "0x.." or "-0x.."
hex_int(c) ==
    (IF IsNegative(c) THEN <<"-">> ELSE <<>>) \o <<"0", "x">> \o PairDigits(Magnitude(c))

\* Python 2 hex(long): as hex(int) with a trailing "L"
hex_long(c) == hex_int(c) \o <<"L">>

\* n & 0xFFFFFFFF on a [hi, lo] pair
Mask32(c) == [hi |-> c.hi % 16777216, lo |-> c.lo]

\* s[start:-drop] of Python, start counted from 0
PySlice(s, start, drop) ==
    LET stop == IF Len(s) - drop < 0 THEN 0 ELSE Len(s) - drop
    IN  IF stop > start THEN SubSeq(s, start + 1, stop) ELSE <<>>

RECURSIVE rjust(_, _, _)
rjust(s, width, fill) ==
    IF Len(s) >= width THEN s ELSE rjust(<<fill>> \o s, width, fill)

UpperChar(ch) ==
    CASE ch = "a" -> "A" [] ch = "b" -> "B" [] ch = "c" -> "C"
      [] ch = "d" -> "D" [] ch = "e" -> "E" [] ch = "f" -> "F"
      [] ch = "x" -> "X" [] OTHER -> ch

upper(s) == [i \in 1..Len(s) |-> UpperChar(s[i])]

----------------------------------------------------------------------------
(* get_color_string *)

\* Python 2: long() exists, the try block runs to its end.
\* Python 3: long() raises NameError, the except block runs.
get_color_string(longC, pyver) ==
    LET hexC ==
          IF pyver = 2
          THEN LET l == IF IsNegative(longC) THEN Mask32(longC) ELSE longC
               IN  PySlice(hex_long(l), 2, 3)
          ELSE PySlice(hex_int(longC), 2, 2)
    IN  <<"#">> \o upper(rjust(hexC, 6, "0"))

----------------------------------------------------------------------------
(* Options: the add_argument declarations and their defaults *)

Color(rgb, alpha) == [hi |-> rgb, lo |-> alpha]

\* Numerators: stroke widths are in tenths, dash lengths and duty cycles
\* in 1/Den.
Defaults ==
    [ units                     |-> "mm",
      mountain_stroke_color     |-> Color(16711680, 255),  \* 4278190335
      mountain_stroke_width     |-> 1,
      mountain_dashes_len       |-> Den,
      mountain_dashes_duty      |-> Den \div 2,
      mountain_dashes_bool      |-> TRUE,
      mountain_bool             |-> TRUE,
      valley_stroke_color       |-> Color(255, 255),       \* 65535
      valley_stroke_width       |-> 1,
      valley_dashes_len         |-> Den,
      valley_dashes_duty        |-> Den \div 4,
      valley_dashes_bool        |-> TRUE,
      valley_bool               |-> TRUE,
      edge_stroke_color         |-> Color(0, 255),         \* 255
      edge_stroke_width         |-> 1,
      edge_dashes_len           |-> Den,
      edge_dashes_duty          |-> Den \div 4,
      edge_dashes_bool          |-> FALSE,
      edge_bool                 |-> TRUE,
      edge_single_path          |-> TRUE,
      universal_stroke_color    |-> Color(16711935, 255),  \* 4278255615
      universal_stroke_width    |-> 1,
      universal_dashes_len      |-> Den,
      universal_dashes_duty     |-> Den \div 4,
      universal_dashes_bool     |-> FALSE,
      universal_bool            |-> TRUE,
      semicrease_stroke_color   |-> Color(16776960, 255),  \* 4294902015
      semicrease_stroke_width   |-> 1,
      semicrease_dashes_len     |-> Den,
      semicrease_dashes_duty    |-> Den \div 4,
      semicrease_dashes_bool    |-> FALSE,
      semicrease_bool           |-> TRUE,
      cut_stroke_color          |-> Color(65280, 255),     \* 16711935
      cut_stroke_width          |-> 1,
      cut_dashes_len            |-> Den,
      cut_dashes_duty           |-> Den \div 4,
      cut_dashes_bool           |-> FALSE,
      cut_bool                  |-> TRUE,
      vertex_stroke_color       |-> Color(0, 255),         \* 255
      vertex_stroke_width       |-> 1,
      vertex_bool               |-> TRUE ]

----------------------------------------------------------------------------
(* calc_unit_factor *)

Outcomes == {"ok", "AttributeError", "TypeError"}

\* try: self.svg.unittouu  except (anything): try: inkex.unittouu
\* except AttributeError: self.unittouu
calc_unit_factor(h) ==
    IF h.svg_unittouu = "ok"
    THEN [calls |-> <<"svg">>, raised |-> "none", value |-> h.uu]
    ELSE IF h.inkex_unittouu = "ok"
    THEN [calls |-> <<"svg", "inkex">>, raised |-> "none", value |-> h.uu]
    ELSE IF h.inkex_unittouu = "AttributeError"
    THEN IF h.self_unittouu = "ok"
         THEN [calls |-> <<"svg", "inkex", "self">>, raised |-> "none", value |-> h.uu]
         ELSE [calls |-> <<"svg", "inkex", "self">>, raised |-> h.self_unittouu, value |-> 0]
    ELSE [calls |-> <<"svg", "inkex">>, raised |-> h.inkex_unittouu, value |-> 0]

----------------------------------------------------------------------------
(* create_styles_dict *)

\* a slip: the absolute value is forgotten
dash_gap_noabs(len, duty, unit_factor) ==
    LET dash == len * duty * unit_factor
        gap  == dash - len * unit_factor * Den
    IN  [on |-> dash, gap |-> gap]

\* a slip: a negative difference is clamped to zero instead of mirrored
dash_gap_clamped(len, duty, unit_factor) ==
    LET dash == len * duty * unit_factor
        diff == len * unit_factor * Den - dash
    IN  [on |-> dash, gap |-> IF diff < 0 THEN 0 ELSE diff]

\* dash = len*duty*unit_factor ; gap = abs(dash - len*unit_factor)
\* numerators over Den^3; the value is formatted as "dash,gap"
dash_gap(len, duty, unit_factor) ==
    LET dash == len * duty * unit_factor
        gap  == Abs(dash - len * unit_factor * Den)
    IN  [on |-> dash, gap |-> gap]

Style(draw, stroke, width) ==
    ("draw" :> draw) @@ ("stroke" :> stroke) @@ ("fill" :> "none")
      @@ ("stroke-width" :> width)

WithDash(style, dashes_bool, len, duty, unit_factor) ==
    IF dashes_bool
    THEN style @@ ("stroke-dasharray" :> dash_gap(len, duty, unit_factor))
    ELSE style

mountain_style(o, unit_factor, pyver) ==
    WithDash(Style(o.mountain_bool,
                   get_color_string(o.mountain_stroke_color, pyver),
                   o.mountain_stroke_width * unit_factor),
             o.mountain_dashes_bool, o.mountain_dashes_len,
             o.mountain_dashes_duty, unit_factor)

valley_style(o, unit_factor, pyver) ==
    WithDash(Style(o.valley_bool,
                   get_color_string(o.valley_stroke_color, pyver),
                   o.valley_stroke_width * unit_factor),
             o.valley_dashes_bool, o.valley_dashes_len,
             o.valley_dashes_duty, unit_factor)

universal_style(o, unit_factor, pyver) ==
    WithDash(Style(o.universal_bool,
                   get_color_string(o.universal_stroke_color, pyver),
                   o.universal_stroke_width * unit_factor),
             o.universal_dashes_bool, o.universal_dashes_len,
             o.universal_dashes_duty, unit_factor)

semicrease_style(o, unit_factor, pyver) ==
    WithDash(Style(o.semicrease_bool,
                   get_color_string(o.semicrease_stroke_color, pyver),
                   o.semicrease_stroke_width * unit_factor),
             o.semicrease_dashes_bool, o.semicrease_dashes_len,
             o.semicrease_dashes_duty, unit_factor)

cut_style(o, unit_factor, pyver) ==
    WithDash(Style(o.cut_bool,
                   get_color_string(o.cut_stroke_color, pyver),
                   o.cut_stroke_width * unit_factor),
             o.cut_dashes_bool, o.cut_dashes_len,
             o.cut_dashes_duty, unit_factor)

\* a slip of copy and paste: the edge dashes read the valley options
edge_style_crossed(o, unit_factor, pyver) ==
    WithDash(Style(o.edge_bool,
                   get_color_string(o.edge_stroke_color, pyver),
                   o.edge_stroke_width * unit_factor),
             o.edge_dashes_bool, o.valley_dashes_len,
             o.valley_dashes_duty, unit_factor)

edge_style(o, unit_factor, pyver) ==
    WithDash(Style(o.edge_bool,
                   get_color_string(o.edge_stroke_color, pyver),
                   o.edge_stroke_width * unit_factor),
             o.edge_dashes_bool, o.edge_dashes_len,
             o.edge_dashes_duty, unit_factor)

\* a slip: the width is not converted to user units
vertex_style_unscaled(o, unit_factor, pyver) ==
    Style(o.vertex_bool,
          get_color_string(o.vertex_stroke_color, pyver),
          o.vertex_stroke_width)

vertex_style(o, unit_factor, pyver) ==
    Style(o.vertex_bool,
          get_color_string(o.vertex_stroke_color, pyver),
          o.vertex_stroke_width * unit_factor)

\* the dictionary assigned to self.styles_dict
create_styles_dict(o, unit_factor, pyver) ==
    ("m" :> mountain_style(o, unit_factor, pyver))
      @@ ("v" :> valley_style(o, unit_factor, pyver))
      @@ ("u" :> universal_style(o, unit_factor, pyver))
      @@ ("s" :> semicrease_style(o, unit_factor, pyver))
      @@ ("c" :> cut_style(o, unit_factor, pyver))
      @@ ("e" :> edge_style(o, unit_factor, pyver))
      @@ ("p" :> vertex_style(o, unit_factor, pyver))

----------------------------------------------------------------------------
(* Inputs *)

Classes == {"m", "v", "u", "s", "c", "e", "p"}

ByteSamples == {0, 10, 255}

\* colour integers k * 2^32 + 0xRRGGBBAA: k < 0 gives the negative
\* two's-complement spellings, k > 0 values beyond 32 bits
ColorInputs ==
    { Color(r * 65536 + g * 256 + b + k * 16777216, a) :
        r \in ByteSamples, g \in ByteSamples, b \in ByteSamples,
        a \in {0, 255}, k \in (-MaxWrap)..MaxWrap }

StyleColors == { Color(16711680, 255), Color(-65536, 255) }

Half == Den \div 2

\* options of one stroke class as the user may set them
Profiles ==
    [ draw   : BOOLEAN,
      color  : StyleColors,
      width  : 1..MaxWidth,
      len    : { k * Half : k \in 0..MaxLen },
      duty   : { k * Half : k \in 0..MaxDuty },
      dashed : BOOLEAN ]

UnitFactors == { k * Half : k \in 1..MaxFactor }

\* self.options after parsing arguments that set the options of class c
WithClass(o, c, p) ==
    CASE c = "m" -> [o EXCEPT !.mountain_bool = p.draw, !.mountain_stroke_color = p.color,
                              !.mountain_stroke_width = p.width, !.mountain_dashes_len = p.len,
                              !.mountain_dashes_duty = p.duty, !.mountain_dashes_bool = p.dashed]
      [] c = "v" -> [o EXCEPT !.valley_bool = p.draw, !.valley_stroke_color = p.color,
                              !.valley_stroke_width = p.width, !.valley_dashes_len = p.len,
                              !.valley_dashes_duty = p.duty, !.valley_dashes_bool = p.dashed]
      [] c = "u" -> [o EXCEPT !.universal_bool = p.draw, !.universal_stroke_color = p.color,
                              !.universal_stroke_width = p.width, !.universal_dashes_len = p.len,
                              !.universal_dashes_duty = p.duty, !.universal_dashes_bool = p.dashed]
      [] c = "s" -> [o EXCEPT !.semicrease_bool = p.draw, !.semicrease_stroke_color = p.color,
                              !.semicrease_stroke_width = p.width, !.semicrease_dashes_len = p.len,
                              !.semicrease_dashes_duty = p.duty, !.semicrease_dashes_bool = p.dashed]
      [] c = "c" -> [o EXCEPT !.cut_bool = p.draw, !.cut_stroke_color = p.color,
                              !.cut_stroke_width = p.width, !.cut_dashes_len = p.len,
                              !.cut_dashes_duty = p.duty, !.cut_dashes_bool = p.dashed]
      [] c = "e" -> [o EXCEPT !.edge_bool = p.draw, !.edge_stroke_color = p.color,
                              !.edge_stroke_width = p.width, !.edge_dashes_len = p.len,
                              !.edge_dashes_duty = p.duty, !.edge_dashes_bool = p.dashed]
      [] c = "p" -> [o EXCEPT !.vertex_bool = p.draw, !.vertex_stroke_color = p.color,
                              !.vertex_stroke_width = p.width]

Failures == {"AttributeError"}

\* run() exists and calls effect(), and raises afterwards (writing the
\* output fails)
LateFailures == {"IOError"}

\* the revisions of the host API: each call path works or raises
Hosts ==
    [ svg_unittouu   : Outcomes,
      inkex_unittouu : Outcomes,
      self_unittouu  : Outcomes,
      svg_layer      : {"ok"} \cup Failures,
      current_layer  : {"ok"} \cup Failures,
      run            : {"ok"} \cup Failures \cup LateFailures,
      affect         : {"ok"} \cup Failures,
      uu             : {Den} ]

ModernHost(f) ==
    [ svg_unittouu |-> "ok", inkex_unittouu |-> "AttributeError",
      self_unittouu |-> "AttributeError", svg_layer |-> "ok",
      current_layer |-> "AttributeError", run |-> "ok", affect |-> "ok",
      uu |-> f ]

\* Path(points, style, closed)
Path(points, style, closed) ==
    [kind |-> "path", style |-> style, points |-> points, closed |-> closed,
     items |-> <<>>]

\* a sublist of the path tree
Sublist(items) ==
    [kind |-> "list", style |-> "", points |-> <<>>, closed |-> FALSE,
     items |-> items]

Points == [i \in 1..MaxEdge |-> i]

NodeSamples ==
    { Path(<<1, 2>>, "m", FALSE), Sublist(<<Path(<<2, 1>>, "v", FALSE)>>) }

SeqsUpTo(S, n) == UNION { [1..k -> S] : k \in 0..n }

Trees == SeqsUpTo(NodeSamples, MaxTree)

\* the boundary of a pattern: its first k vertices, in either orientation
EdgeLists ==
    UNION { { [i \in 1..k |-> Points[i]], [i \in 1..k |-> Points[k + 1 - i]] } :
            k \in 0..MaxEdge }

----------------------------------------------------------------------------
(* External collaborators (Path.py) *)

RECURSIVE Partitions(_)
Partitions(s) ==
    IF s = <<>> THEN {<<>>}
    ELSE UNION { { <<SubSeq(s, 1, i)>> \o r : r \in Partitions(SubSeq(s, i + 1, Len(s))) } :
                 i \in 1..Len(s) }

\* Path.generate_separated_paths(points, style, closed): the possible
\* returns, one leaf per run of consecutive points
generate_separated_paths(points, style, closed) ==
    { [j \in 1..Len(p) |-> Path(p[j], style, closed)] : p \in Partitions(points) }

NoNode == Path(<<>>, "", FALSE)

\* Path.draw_paths_recursively(path_tree, group, styles_dict): the elements
\* added under `group`, a path per leaf and a nested group per sublist
RECURSIVE draw_paths_recursively(_)
draw_paths_recursively(tree) ==
    [ i \in 1..Len(tree) |->
        IF tree[i].kind = "path"
        THEN [tag |-> "path", node |-> tree[i], children |-> <<>>]
        ELSE [tag |-> "g", node |-> NoNode,
              children |-> draw_paths_recursively(tree[i].items)] ]

----------------------------------------------------------------------------
(* draw, get_layer, effect *)

NoGroup    == [kind |-> "none", index |-> 0]
LayerGroup == [kind |-> "layer", index |-> 0]

\* a slip: the fallback swallows the failure and returns a default
get_layer_swallow(h) == "ok"

\* try: self.svg.get_current_layer()  except: self.current_layer
get_layer(h) ==
    IF h.svg_layer = "ok" THEN "ok"
    ELSE IF h.current_layer = "ok" THEN "ok"
    ELSE h.current_layer

\* an exception leaves effect(): draw() catches what run() raised and
\* calls affect(); what affect() raises leaves draw()
Raise(exc) ==
    IF entry = "run"
    THEN IF host.affect = "ok"
         THEN /\ pc' = "styles" /\ entry' = "affect" /\ error' = "none"
              /\ passes' = passes + 1
         ELSE /\ pc' = "error" /\ entry' = entry /\ error' = host.affect
              /\ UNCHANGED passes
    ELSE /\ pc' = "error" /\ entry' = entry /\ error' = exc
         /\ UNCHANGED passes

\* draw(): try self.run() except: self.affect()
draw ==
    /\ pc = "draw"
    /\ IF host.run \in {"ok"} \cup LateFailures
       THEN pc' = "styles" /\ entry' = "run" /\ error' = "none"
              /\ passes' = passes + 1
       ELSE IF host.affect = "ok"
       THEN pc' = "styles" /\ entry' = "affect" /\ error' = "none"
              /\ passes' = passes + 1
       ELSE pc' = "error" /\ entry' = "none" /\ error' = host.affect
              /\ UNCHANGED passes
    /\ UNCHANGED <<py, host, options, longColor, hexColor, unit_calls,
                   styles_dict, path_tree, edge_points, edges, topgroup,
                   layer, rendered, mutating>>

\* run() raises after effect() returned: the bare except of draw() calls
\* affect(), which runs effect() again, on the document as it is or on
\* the document parsed anew
run_raises ==
    /\ pc = "done"
    /\ entry = "run"
    /\ host.run \in LateFailures
    /\ Raise(host.run)
    /\ layer' \in {layer, <<>>}
    /\ UNCHANGED <<py, host, options, longColor, hexColor, unit_calls,
                   styles_dict, path_tree, edge_points, edges, topgroup,
                   rendered, mutating>>

\* effect(), line 314: self.create_styles_dict()
effect_create_styles_dict ==
    /\ pc = "styles"
    /\ LET r == calc_unit_factor(host)
       IN  /\ unit_calls' = r.calls
           /\ IF r.raised = "none"
              THEN /\ styles_dict' = create_styles_dict(options, r.value, py)
                   /\ pc' = "generate"
                   /\ UNCHANGED <<entry, error, passes>>
              ELSE /\ Raise(r.raised)
                   /\ UNCHANGED styles_dict
    /\ UNCHANGED <<py, host, options, longColor, hexColor, path_tree,
                   edge_points, edges, topgroup, layer, rendered, mutating>>

\* effect(), line 317: self.generate_path_tree(), the subclass sets
\* self.path_tree and self.edge_points; a second pass computes the same
\* pattern from the same options
generate_path_tree ==
    /\ pc = "generate"
    /\ IF passes >= 2
       THEN UNCHANGED <<path_tree, edge_points>>
       ELSE /\ path_tree' \in Trees
            /\ edge_points' \in EdgeLists
    /\ pc' = "group"
    /\ UNCHANGED <<py, host, options, longColor, hexColor, unit_calls,
                   styles_dict, edges, topgroup, layer, rendered, entry, error,
                   passes, mutating>>

\* line 333: type(self.path_tree) == list and len(self.path_tree) != 1
NeedsGroup(tree) == Len(tree) /= 1

NewGroup == [tag |-> "g", node |-> NoNode, children |-> <<>>]

\* effect(), lines 332-336: the top group
effect_topgroup ==
    /\ pc = "group"
    /\ IF get_layer(host) = "ok"
       THEN /\ IF NeedsGroup(path_tree)
               THEN /\ layer' = Append(layer, NewGroup)
                    /\ topgroup' = [kind |-> "group", index |-> Len(layer) + 1]
                    /\ mutating' = mutating \cup {passes}
               ELSE /\ topgroup' = LayerGroup
                    /\ UNCHANGED <<layer, mutating>>
            /\ pc' = "render"
            /\ UNCHANGED <<entry, error, passes>>
       ELSE /\ Raise(get_layer(host))
            /\ UNCHANGED <<layer, topgroup, mutating>>
    /\ UNCHANGED <<py, host, options, longColor, hexColor, unit_calls,
                   styles_dict, path_tree, edge_points, edges, rendered>>

\* a slip: the boundary is put in front of the pattern
Assemble_edges_first(tree, boundary) == boundary \o tree

\* self.path_tree + [edges]  /  self.path_tree + edges
Assemble(tree, boundary) == tree \o boundary

\* a slip: the boundary is added to self.path_tree in place (+=)
KeptTree_extended(tree, boundary) == tree \o boundary

\* self.path_tree after `self.path_tree + ...`: list addition builds a new
\* list and leaves its operands as they are
KeptTree(tree, boundary) == tree

\* the boundary nodes of lines 338-345, as a set of possible lists
Boundary(pts, single_path) ==
    IF Len(pts) = 0 THEN {<<>>}
    ELSE IF single_path THEN {<<Path(pts, "e", TRUE)>>}
    ELSE generate_separated_paths(pts, "e", TRUE)

\* effect(), lines 338-345: hand the nodes to the renderer
effect_draw_paths ==
    /\ pc = "render"
    /\ \E b \in Boundary(edge_points, options.edge_single_path) :
         /\ edges' = b
         /\ rendered' = Assemble(path_tree, b)
         /\ layer' = IF topgroup.kind = "group"
                     THEN [layer EXCEPT ![topgroup.index].children =
                             @ \o draw_paths_recursively(Assemble(path_tree, b))]
                     ELSE layer \o draw_paths_recursively(Assemble(path_tree, b))
         /\ mutating' = IF Len(Assemble(path_tree, b)) > 0
                        THEN mutating \cup {passes} ELSE mutating
         /\ path_tree' = KeptTree(path_tree, b)
    /\ pc' = "done"
    /\ UNCHANGED <<py, host, options, longColor, hexColor, unit_calls,
                   styles_dict, edge_points, topgroup, entry, error, passes>>

\* a direct call of get_color_string
color_call ==
    /\ pc = "color"
    /\ hexColor' = get_color_string(longColor, py)
    /\ pc' = "returned"
    /\ UNCHANGED <<py, host, options, longColor, unit_calls, styles_dict,
                   path_tree, edge_points, edges, topgroup, layer, rendered,
                   entry, error, passes, mutating>>

----------------------------------------------------------------------------
(* Specifications *)

NoStyles == [c \in Classes |-> Style(FALSE, <<>>, 0)]

Fresh ==
    /\ longColor = Color(0, 0)
    /\ hexColor = <<>>
    /\ unit_calls = <<>>
    /\ styles_dict = NoStyles
    /\ path_tree = <<>>
    /\ edge_points = <<>>
    /\ edges = <<>>
    /\ topgroup = NoGroup
    /\ layer = <<>>
    /\ rendered = <<>>
    /\ entry = "none"
    /\ error = "none"
    /\ passes = 0
    /\ mutating = {}

\* one invocation of the extension on any host, with the default options
\* and either edge mode
Init ==
    /\ py \in {2, 3}
    /\ host \in Hosts
    /\ options \in { [Defaults EXCEPT !.edge_single_path = b] : b \in BOOLEAN }
    /\ Fresh
    /\ pc = "draw"

Next ==
    \/ draw
    \/ effect_create_styles_dict
    \/ generate_path_tree
    \/ effect_topgroup
    \/ effect_draw_paths
    \/ run_raises

Spec == Init /\ [][Next]_vars

\* style compilation alone: one stroke class set by the user, any unit factor
InitStyle ==
    /\ py \in {2, 3}
    /\ host \in { ModernHost(f) : f \in UnitFactors }
    /\ options \in { WithClass(Defaults, c, p) : c \in Classes, p \in Profiles }
    /\ Fresh
    /\ pc = "styles"

NextStyle == effect_create_styles_dict

SpecStyle == InitStyle /\ [][NextStyle]_vars

\* the colour codec alone
InitColor ==
    /\ py \in {2, 3}
    /\ host = ModernHost(Den)
    /\ options = Defaults
    /\ longColor \in ColorInputs
    /\ hexColor = <<>>
    /\ unit_calls = <<>>
    /\ styles_dict = NoStyles
    /\ path_tree = <<>>
    /\ edge_points = <<>>
    /\ edges = <<>>
    /\ topgroup = NoGroup
    /\ layer = <<>>
    /\ rendered = <<>>
    /\ entry = "none"
    /\ error = "none"
    /\ passes = 0
    /\ mutating = {}
    /\ pc = "color"

NextColor == color_call

SpecColor == InitColor /\ [][NextColor]_vars

----------------------------------------------------------------------------
(* Properties of the assembly in effect() *)

Finished == pc = "done"

\* C1: the nodes are wrapped in exactly one new group if and only if the
\* sequence handed to the renderer has at least 2 elements, the group then
\* holding all of them in order; a single element goes directly under the
\* current layer, without a group.
C1_GroupIffTwoOrMore ==
    Finished =>
      /\ (topgroup.kind = "group") <=> (Len(rendered) >= 2)
      /\ Len(rendered) >= 2 =>
           layer = << [tag |-> "g", node |-> NoNode,
                       children |-> draw_paths_recursively(rendered)] >>
      /\ Len(rendered) = 1 => layer = draw_paths_recursively(rendered)

\* C2: when the generator returns an empty tree and no edge points, effect()
\* raises nothing and adds nothing, neither a group nor a path, to the
\* document.
C2_EmptyPatternAddsNothing ==
    (Finished /\ path_tree = <<>> /\ edge_points = <<>>) =>
      (layer = <<>> /\ error = "none")

\* C3: the sequence handed to the renderer is path_tree followed by the
\* boundary nodes: nothing for no edge points, one closed 'e' path of all
\* the points in single-path mode, the splitter's nodes in returned order
\* otherwise.
C3_RenderedIsTreeThenBoundary ==
    Finished =>
      /\ Len(edge_points) = 0 => rendered = path_tree
      /\ (Len(edge_points) > 0 /\ options.edge_single_path) =>
           rendered = path_tree \o
                        << [kind |-> "path", style |-> "e", points |-> edge_points,
                            closed |-> TRUE, items |-> <<>>] >>
      /\ (Len(edge_points) > 0 /\ ~options.edge_single_path) =>
           /\ edges \in generate_separated_paths(edge_points, "e", TRUE)
           /\ rendered = path_tree \o edges

C3_Witness ==
    /\ Finished
    /\ Len(path_tree) = 2 /\ path_tree[1] /= path_tree[2]
    /\ Len(edge_points) = 2
    /\ ~options.edge_single_path
    /\ Len(edges) = 2
    /\ Len(rendered) = 4

----------------------------------------------------------------------------
(* Properties of get_color_string *)

UpperHexChars == <<"0","1","2","3","4","5","6","7","8","9","A","B","C","D","E","F">>

WellFormedColor(s) ==
    /\ Len(s) = 7
    /\ s[1] = "#"
    /\ \A i \in 2..7 : \E d \in 1..16 : s[i] = UpperHexChars[d]

\* "#" and the six hex digits of v, 0 <= v < 2^24
SixDigits(v) ==
    <<"#">> \o [i \in 1..6 |-> UpperHexChars[((v \div (16 ^ (6 - i))) % 16) + 1]]

\* (n mod 2^32) div 2^8 for n = hi * 256 + lo
Rgb24(c) == c.hi % 16777216

\* C4: get_color_string is total and well formed: for every integer, also
\* negative and beyond 32 bits, the result has 7 characters and matches
\* #[0-9A-F]{6}.
C4_ColorWellFormed ==
    pc = "returned" => WellFormedColor(hexColor)

\* C5: for every integer n, get_color_string(n) is "#" and the six
\* zero-padded uppercase hex digits of (n mod 2^32) div 2^8.
C5_ColorIsMaskedRgb ==
    pc = "returned" => hexColor = SixDigits(Rgb24(longColor))

----------------------------------------------------------------------------
(* Properties of create_styles_dict *)

Compiled == pc = "generate"

DashedClasses == {"m", "v", "u", "s", "c", "e"}

\* the raw options of a stroke class
Raw(o, c) ==
    CASE c = "m" -> [draw |-> o.mountain_bool, color |-> o.mountain_stroke_color,
                     width |-> o.mountain_stroke_width, len |-> o.mountain_dashes_len,
                     duty |-> o.mountain_dashes_duty, dashed |-> o.mountain_dashes_bool]
      [] c = "v" -> [draw |-> o.valley_bool, color |-> o.valley_stroke_color,
                     width |-> o.valley_stroke_width, len |-> o.valley_dashes_len,
                     duty |-> o.valley_dashes_duty, dashed |-> o.valley_dashes_bool]
      [] c = "u" -> [draw |-> o.universal_bool, color |-> o.universal_stroke_color,
                     width |-> o.universal_stroke_width, len |-> o.universal_dashes_len,
                     duty |-> o.universal_dashes_duty, dashed |-> o.universal_dashes_bool]
      [] c = "s" -> [draw |-> o.semicrease_bool, color |-> o.semicrease_stroke_color,
                     width |-> o.semicrease_stroke_width, len |-> o.semicrease_dashes_len,
                     duty |-> o.semicrease_dashes_duty, dashed |-> o.semicrease_dashes_bool]
      [] c = "c" -> [draw |-> o.cut_bool, color |-> o.cut_stroke_color,
                     width |-> o.cut_stroke_width, len |-> o.cut_dashes_len,
                     duty |-> o.cut_dashes_duty, dashed |-> o.cut_dashes_bool]
      [] c = "e" -> [draw |-> o.edge_bool, color |-> o.edge_stroke_color,
                     width |-> o.edge_stroke_width, len |-> o.edge_dashes_len,
                     duty |-> o.edge_dashes_duty, dashed |-> o.edge_dashes_bool]
      [] c = "p" -> [draw |-> o.vertex_bool, color |-> o.vertex_stroke_color,
                     width |-> o.vertex_stroke_width, len |-> 0,
                     duty |-> 0, dashed |-> FALSE]

\* C6: for every dashed class with L >= 0, 0 <= D <= 1, F > 0 the dash pair
\* is on = L*D*F and gap = L*F*(1-D), both non-negative, with
\* on + gap = L*F (numerators over Den^3).
C6_DashPair ==
    Compiled =>
      \A c \in DashedClasses :
        LET r == Raw(options, c)
            F == host.uu
        IN  (r.dashed /\ r.len >= 0 /\ r.duty >= 0 /\ r.duty <= Den /\ F > 0) =>
              LET d == styles_dict[c]["stroke-dasharray"]
              IN  /\ d.on = r.len * r.duty * F
                  /\ d.gap = r.len * F * (Den - r.duty)
                  /\ d.on >= 0 /\ d.gap >= 0
                  /\ d.on + d.gap = r.len * F * Den

\* L = 1, D = 1/2, F = 2 gives on = 1 and gap = 1
C6_Witness ==
    /\ Compiled
    /\ options.mountain_dashes_bool
    /\ options.mountain_dashes_len = 2 * Half
    /\ options.mountain_dashes_duty = Half
    /\ host.uu = 4 * Half
    /\ styles_dict["m"]["stroke-dasharray"].on = 8 * Half * Half * Half
    /\ styles_dict["m"]["stroke-dasharray"].gap = 8 * Half * Half * (Den - Half)

\* C7 as stated: a duty cycle D > 1 gives a gap length of zero.
C7_GapZeroAboveOne ==
    Compiled =>
      \A c \in DashedClasses :
        LET r == Raw(options, c)
        IN  (r.dashed /\ r.duty > Den /\ r.len >= 0 /\ host.uu > 0) =>
              styles_dict[c]["stroke-dasharray"].gap = 0

\* C7 amended: a duty cycle D > 1 is accepted without error and gives the
\* gap length L*F*(D-1), which is non-negative and zero only for L = 0.
C7_GapMirroredAboveOne ==
    Compiled =>
      \A c \in DashedClasses :
        LET r == Raw(options, c)
        IN  (r.dashed /\ r.duty > Den /\ r.len >= 0 /\ host.uu > 0) =>
              /\ error = "none"
              /\ "stroke-dasharray" \in DOMAIN styles_dict[c]
              /\ styles_dict[c]["stroke-dasharray"].gap
                   = r.len * host.uu * (r.duty - Den)
              /\ styles_dict[c]["stroke-dasharray"].gap >= 0
              /\ (styles_dict[c]["stroke-dasharray"].gap = 0) <=> (r.len = 0)

C7_Witness ==
    /\ Compiled
    /\ options.cut_dashes_bool
    /\ options.cut_dashes_duty > Den
    /\ options.cut_dashes_len > 0
    /\ styles_dict["c"]["stroke-dasharray"].gap > 0

StyleKeys == {"draw", "stroke", "fill", "stroke-width"}

\* C8: styles_dict has exactly one entry per stroke class, whatever the
\* draw flags, with draw = raw flag, stroke = decoded raw colour,
\* fill = none, stroke-width = raw width times the one unit factor of the
\* invocation, and a dash entry exactly when the class's dashed flag is set.
C8_StyleTable ==
    Compiled =>
      /\ DOMAIN styles_dict = Classes
      /\ Len(unit_calls) = 1
      /\ \A c \in Classes :
           LET r  == Raw(options, c)
               st == styles_dict[c]
           IN  /\ st["draw"] = r.draw
               /\ st["stroke"] = get_color_string(r.color, py)
               /\ st["fill"] = "none"
               /\ st["stroke-width"] = r.width * host.uu
               /\ ("stroke-dasharray" \in DOMAIN st) <=> r.dashed
               /\ DOMAIN st = IF r.dashed THEN StyleKeys \cup {"stroke-dasharray"}
                              ELSE StyleKeys

C8_Witness ==
    /\ Compiled
    /\ ~options.vertex_bool
    /\ options.vertex_stroke_width = MaxWidth
    /\ host.uu /= Den
    /\ styles_dict["p"]["draw"] = FALSE
    /\ styles_dict["p"]["stroke-width"] = MaxWidth * host.uu
    /\ "stroke-dasharray" \in DOMAIN styles_dict["m"]
    /\ "stroke-dasharray" \notin DOMAIN styles_dict["e"]

\* two option sets for one class that differ from each other in every field
AltProfiles ==
    { [draw |-> FALSE, color |-> Color(-65536, 255), width |-> MaxWidth,
       len |-> MaxLen * Half, duty |-> MaxDuty * Half, dashed |-> TRUE],
      [draw |-> TRUE, color |-> Color(16711680, 255), width |-> 1,
       len |-> 0, duty |-> 0, dashed |-> FALSE] }

\* C9: a second run with the same unit factor whose options differ only in
\* the options of one stroke class X compiles the same style for every
\* class other than X.
C9_ClassesIndependent ==
    Compiled =>
      \A X \in Classes : \A alt \in AltProfiles :
        LET second == create_styles_dict(WithClass(options, X, alt), host.uu, py)
        IN  \A c \in Classes \ {X} : second[c] = styles_dict[c]

C9_Witness ==
    /\ Compiled
    /\ options.valley_dashes_len /= Defaults.valley_dashes_len
    /\ \A alt \in AltProfiles :
         create_styles_dict(WithClass(options, "v", alt), host.uu, py)["v"]
           /= styles_dict["v"]

----------------------------------------------------------------------------
(* Properties of calc_unit_factor *)

UnitPaths == <<"svg", "inkex", "self">>

UnitOutcome(h, p) ==
    CASE p = "svg" -> h.svg_unittouu
      [] p = "inkex" -> h.inkex_unittouu
      [] p = "self" -> h.self_unittouu

\* C10: the three call paths are tried in the order document-scoped,
\* module-level, instance-level; whenever an earlier path fails (missing
\* attribute, missing method or incompatible signature) the next one is
\* attempted, and no path is called after one succeeded.
C10_UnitFallbackChain ==
    unit_calls /= <<>> =>
      /\ Len(unit_calls) <= 3
      /\ \A i \in 1..Len(unit_calls) : unit_calls[i] = UnitPaths[i]
      /\ \A i \in 1..2 :
           (i <= Len(unit_calls) /\ UnitOutcome(host, UnitPaths[i]) /= "ok")
             => Len(unit_calls) >= i + 1
      /\ \A i \in 1..Len(unit_calls) :
           i < Len(unit_calls) => UnitOutcome(host, UnitPaths[i]) /= "ok"

----------------------------------------------------------------------------
(* Properties of the fallbacks and of draw() *)

AllUnitPathsFail(h) ==
    h.svg_unittouu /= "ok" /\ h.inkex_unittouu /= "ok" /\ h.self_unittouu /= "ok"

BothLayerAccessorsFail(h) == h.svg_layer /= "ok" /\ h.current_layer /= "ok"

BothEntryPointsFail(h) == h.run \in Failures /\ h.affect \in Failures

CapabilityUnavailable ==
    AllUnitPathsFail(host) \/ BothLayerAccessorsFail(host) \/ BothEntryPointsFail(host)

\* C11: if every fallback of a required capability fails (the three unit
\* conversion paths, both layer accessors, or both of run and affect), the
\* invocation cannot end normally, only in a fatal error, and up to and at
\* that point nothing was rendered and nothing was added to the document.
C11_FatalBeforeRendering ==
    CapabilityUnavailable =>
      /\ layer = <<>>
      /\ mutating = {}
      /\ pc \in {"draw", "styles", "generate", "group", "error"}
      /\ pc = "error" => error /= "none"

C11_Witness ==
    /\ pc = "error"
    /\ error = "AttributeError"
    /\ BothLayerAccessorsFail(host)
    /\ ~AllUnitPathsFail(host)
    /\ passes = 2
    /\ Len(path_tree) = 2
    /\ layer = <<>>

\* C12: the assembly does not change self.path_tree or self.edge_points:
\* every step other than generate_path_tree itself leaves both as the
\* generator set them, in all three boundary cases.
C12_InputsKept ==
    [][pc /= "generate" => (path_tree' = path_tree /\ edge_points' = edge_points)]_vars

C12_Witness ==
    /\ Finished
    /\ Len(path_tree) = 2
    /\ Len(edge_points) = 2
    /\ ~options.edge_single_path
    /\ Len(edges) = 2
    /\ rendered = path_tree \o edges
    /\ rendered /= path_tree

\* C13: one draw() runs the pipeline at most once: the document is never
\* changed by a second pass through effect(), also when run() raises after
\* effect() has added its nodes.
C13_NoSecondPassMutation ==
    /\ mutating \subseteq {1}
    /\ passes >= 2 => 1 \notin mutating

====
